---- MODULE Spec2Model ----
(***************************************************************************)
(* A model of gomap: Map[K, V] is a value struct {mutex *sync.RWMutex,     *)
(* innerMap map[K]V}.  The heap holds native maps (store) and RWMutexes    *)
(* (mutex); a Map value is a pair of references into it.  Every method is  *)
(* split at the points where it touches shared memory: lock operations,    *)
(* reads and writes of a native map, one step per iteration of a range     *)
(* loop.  A native map write takes two steps (begin, commit) so that an    *)
(* unsynchronised overlap of accesses is a state of the model; its outcome *)
(* is then undefined and is a nondeterministic choice.                     *)
(***************************************************************************)
EXTENDS Integers, Sequences, FiniteSets, TLC

VARIABLES
    store,   \* heap of native maps: storage id -> (partial function K -> V)
    mutex,   \* heap of sync.RWMutex: lock id -> [writer, readers]
    maps,    \* the Map values constructed so far, in construction order
    th,      \* per thread: position and locals of the running method
    fatal,   \* the runtime has thrown "concurrent map ..." and the process died
    ncalls,  \* number of calls started (bounded by scope.maxCalls)
    scope    \* the scenario: key universe, threads, call budget (never changes)

vars == <<store, mutex, maps, th, fatal, ncalls, scope>>

\* ---------------------------------------------------------------- bounds
MaxKey == 3
MaxVal == 2
MaxArgs == 2
MaxSize == 3
MaxPointCalls == 2
MaxConcKey == 2
NThreads == 2
NAdders == 2

Keys == 1..MaxKey
Vals == 1..MaxVal
Sizes == 0..MaxSize

\* the zero value of V (V = int in the tests)
Zero == 0

\* ------------------------------------------------------- native map[K]V
EmptyMap == [x \in {} |-> Zero]

\* m[k] = v
MapAssign(m, k, v) == [x \in (DOMAIN m) \cup {k} |-> IF x = k THEN v ELSE m[x]]

\* delete(m, k)
MapDelete(m, k) == [x \in (DOMAIN m) \ {k} |-> m[x]]

\* v, exists := m[k]
MapAccess(m, k) == IF k \in DOMAIN m THEN <<m[k], TRUE>> ELSE <<Zero, FALSE>>

\* len(m)
MapLen(m) == Cardinality(DOMAIN m)

\* every native map over the keys ks
NativeMaps(ks) == UNION {[d -> Vals] : d \in SUBSET ks}

\* ---------------------------------------------------------- sync.RWMutex
NewRWMutex == [writer |-> FALSE, readers |-> 0]

Lock(l) ==
    /\ ~mutex[l].writer
    /\ mutex[l].readers = 0
    /\ mutex' = [mutex EXCEPT ![l].writer = TRUE]

Unlock(l) == mutex' = [mutex EXCEPT ![l].writer = FALSE]

RLock(l) ==
    /\ ~mutex[l].writer
    /\ mutex' = [mutex EXCEPT ![l].readers = @ + 1]

RUnlock(l) == mutex' = [mutex EXCEPT ![l].readers = @ - 1]

\* ------------------------------------------------------------ Map[K, V]
\* mutant of newMap: the lock belongs to the native map, not to the Map
newMapLockPerStorage(locks, s) == [mutex |-> s, innerMap |-> s]

\* newMap wraps the native map s (no copy) and allocates a new RWMutex, the
\* next one of the lock heap; the action using it appends NewRWMutex to mutex.
newMap(locks, s) == [mutex |-> Len(locks) + 1, innerMap |-> s]

NoMap == [mutex |-> 0, innerMap |-> 0]

\* ---------------------------------------------------------------- threads
Threads == DOMAIN th

Idle ==
    [pc |-> "idle", op |-> "-", m |-> NoMap, k |-> 0, v |-> 0,
     others |-> <<>>, keys |-> <<>>, size |-> 0, f |-> <<0, 0>>,
     o |-> NoMap, got |-> <<>>, i |-> 0, seen |-> {},
     newmap |-> EmptyMap, out |-> <<>>,
     ret |-> <<>>, racy |-> FALSE, pre |-> <<>>]

\* threads between the begin and the commit of a write to native map s
Writers(s) ==
    {u \in Threads : th[u].pc \in {"add_commit", "del_commit"}
                      /\ th[u].m.innerMap = s}

\* thread t moves to record r; the threads in ws are marked as having raced
Move(t, r, ws) ==
    th' = [u \in Threads |->
             IF u = t THEN r
             ELSE IF u \in ws THEN [th[u] EXCEPT !.racy = TRUE]
             ELSE th[u]]

Running == ~fatal

\* the outcomes of an access to a native map: defined when it did not overlap
\* a write, otherwise whatever the build produces
WriteOutcomes(t) == IF th[t].racy THEN {"ok", "lost", "fatal"} ELSE {"ok"}
ReadOutcomes(s) == IF Writers(s) # {} THEN {"ok", "fatal"} ELSE {"ok"}

\* pre, the heap as a call found it, is kept for the sequential scenarios,
\* whose claims compare a call's result with it
Snapshot(h) == IF scope.history THEN h ELSE <<>>

\* a call may start
CanCall(t) ==
    /\ Running
    /\ th[t].pc = "idle"
    /\ ncalls < scope.maxCalls

\* a call of a derived operation may start
CanDerive(t) ==
    /\ CanCall(t)
    /\ ncalls < scope.maxDerived

Start(t, r) ==
    /\ th' = [th EXCEPT ![t] = [r EXCEPT !.pre = Snapshot(store)]]
    /\ ncalls' = ncalls + 1
    /\ UNCHANGED <<store, mutex, maps, fatal, scope>>

\* -------------------------------------------------------------------- Add
CallAdd(t) ==
    /\ CanCall(t)
    /\ \E i \in DOMAIN maps, k \in scope.keys, v \in Vals :
         Start(t, [Idle EXCEPT !.pc = "add_lock", !.op = "Add",
                               !.m = maps[i], !.k = k, !.v = v])

\* mutant of AddLock: Add does not take the lock
AddLockSkipped(t) ==
    /\ Running
    /\ th[t].pc = "add_lock"
    /\ Move(t, [th[t] EXCEPT !.pc = "add_write"], {})
    /\ UNCHANGED <<store, mutex, maps, fatal, ncalls, scope>>

\* mutant of AddLock: Add takes the lock as a reader
AddLockShared(t) ==
    /\ Running
    /\ th[t].pc = "add_lock"
    /\ RLock(th[t].m.mutex)
    /\ Move(t, [th[t] EXCEPT !.pc = "add_write"], {})
    /\ UNCHANGED <<store, maps, fatal, ncalls, scope>>

\* m.mutex.Lock()
AddLock(t) ==
    /\ Running
    /\ th[t].pc = "add_lock"
    /\ Lock(th[t].m.mutex)
    /\ Move(t, [th[t] EXCEPT !.pc = "add_write"], {})
    /\ UNCHANGED <<store, maps, fatal, ncalls, scope>>

\* m.innerMap[k] = v begins
AddWrite(t) ==
    /\ Running
    /\ th[t].pc = "add_write"
    /\ LET ws == Writers(th[t].m.innerMap) IN
         Move(t, [th[t] EXCEPT !.pc = "add_commit", !.racy = (ws # {})], ws)
    /\ UNCHANGED <<store, mutex, maps, fatal, ncalls, scope>>

\* m.innerMap[k] = v takes effect
AddCommit(t) ==
    /\ Running
    /\ th[t].pc = "add_commit"
    /\ \E o \in WriteOutcomes(t) :
         /\ fatal' = (o = "fatal")
         /\ store' = IF o = "ok"
                     THEN [store EXCEPT ![th[t].m.innerMap] =
                             MapAssign(@, th[t].k, th[t].v)]
                     ELSE store
    /\ Move(t, [th[t] EXCEPT !.pc = "add_unlock", !.racy = FALSE], {})
    /\ UNCHANGED <<mutex, maps, ncalls, scope>>

\* m.mutex.Unlock(); return m
AddUnlock(t) ==
    /\ Running
    /\ th[t].pc = "add_unlock"
    /\ Unlock(th[t].m.mutex)
    /\ Move(t, [th[t] EXCEPT !.pc = "ret", !.ret = th[t].m], {})
    /\ UNCHANGED <<store, maps, fatal, ncalls, scope>>

\* ----------------------------------------------------------------- Delete
CallDelete(t) ==
    /\ CanCall(t)
    /\ \E i \in DOMAIN maps, k \in scope.keys :
         Start(t, [Idle EXCEPT !.pc = "del_lock", !.op = "Delete",
                               !.m = maps[i], !.k = k])

\* m.mutex.Lock()
DeleteLock(t) ==
    /\ Running
    /\ th[t].pc = "del_lock"
    /\ Lock(th[t].m.mutex)
    /\ Move(t, [th[t] EXCEPT !.pc = "del_read"], {})
    /\ UNCHANGED <<store, maps, fatal, ncalls, scope>>

\* mutant of DeleteRead: Delete does not look the key up before deleting it
DeleteReadBlind(t) ==
    /\ Running
    /\ th[t].pc = "del_read"
    /\ Move(t, [th[t] EXCEPT !.pc = "del_write"], {})
    /\ UNCHANGED <<store, mutex, maps, fatal, ncalls, scope>>

\* if _, exists := m.innerMap[k]; exists
DeleteRead(t) ==
    /\ Running
    /\ th[t].pc = "del_read"
    /\ \E o \in ReadOutcomes(th[t].m.innerMap) :
         /\ fatal' = (o = "fatal")
         /\ IF MapAccess(store[th[t].m.innerMap], th[t].k)[2]
            THEN Move(t, [th[t] EXCEPT !.pc = "del_write"], {})
            ELSE Move(t, [th[t] EXCEPT !.pc = "del_unlock", !.ret = FALSE], {})
    /\ UNCHANGED <<store, mutex, maps, ncalls, scope>>

\* delete(m.innerMap, k) begins
DeleteWrite(t) ==
    /\ Running
    /\ th[t].pc = "del_write"
    /\ LET ws == Writers(th[t].m.innerMap) IN
         Move(t, [th[t] EXCEPT !.pc = "del_commit", !.racy = (ws # {})], ws)
    /\ UNCHANGED <<store, mutex, maps, fatal, ncalls, scope>>

\* delete(m.innerMap, k) takes effect; return true
DeleteCommit(t) ==
    /\ Running
    /\ th[t].pc = "del_commit"
    /\ \E o \in WriteOutcomes(t) :
         /\ fatal' = (o = "fatal")
         /\ store' = IF o = "ok"
                     THEN [store EXCEPT ![th[t].m.innerMap] = MapDelete(@, th[t].k)]
                     ELSE store
    /\ Move(t, [th[t] EXCEPT !.pc = "del_unlock", !.ret = TRUE, !.racy = FALSE], {})
    /\ UNCHANGED <<mutex, maps, ncalls, scope>>

\* defer m.mutex.Unlock()
DeleteUnlock(t) ==
    /\ Running
    /\ th[t].pc = "del_unlock"
    /\ Unlock(th[t].m.mutex)
    /\ Move(t, [th[t] EXCEPT !.pc = "ret"], {})
    /\ UNCHANGED <<store, maps, fatal, ncalls, scope>>

\* -------------------------------------------------------------------- Get
CallGet(t) ==
    /\ CanCall(t)
    /\ \E i \in DOMAIN maps, k \in scope.keys :
         Start(t, [Idle EXCEPT !.pc = "get_rlock", !.op = "Get",
                               !.m = maps[i], !.k = k])

\* m.mutex.RLock()
GetRLock(t) ==
    /\ Running
    /\ th[t].pc = "get_rlock"
    /\ RLock(th[t].m.mutex)
    /\ Move(t, [th[t] EXCEPT !.pc = "get_read"], {})
    /\ UNCHANGED <<store, maps, fatal, ncalls, scope>>

\* if v, exists := m.innerMap[k]; exists { return v, true }; return zero, false
GetRead(t) ==
    /\ Running
    /\ th[t].pc = "get_read"
    /\ \E o \in ReadOutcomes(th[t].m.innerMap) :
         /\ fatal' = (o = "fatal")
         /\ Move(t, [th[t] EXCEPT !.pc = "get_runlock",
                       !.got = MapAccess(store[th[t].m.innerMap], th[t].k)], {})
    /\ UNCHANGED <<store, mutex, maps, ncalls, scope>>

\* defer m.mutex.RUnlock()
GetRUnlock(t) ==
    /\ Running
    /\ th[t].pc = "get_runlock"
    /\ RUnlock(th[t].m.mutex)
    /\ IF th[t].op = "Only"
       THEN Move(t, [th[t] EXCEPT !.pc = "only_got"], {})
       ELSE Move(t, [th[t] EXCEPT !.pc = "ret", !.ret = th[t].got], {})
    /\ UNCHANGED <<store, maps, fatal, ncalls, scope>>

\* ----------------------------------------------------------------- Exists
CallExists(t) ==
    /\ CanCall(t)
    /\ \E i \in DOMAIN maps, k \in scope.keys :
         Start(t, [Idle EXCEPT !.pc = "ex_rlock", !.op = "Exists",
                               !.m = maps[i], !.o = maps[i], !.k = k])

\* m.mutex.RLock(); the receiver is th[t].o: Diff calls other.Exists(k)
ExistsRLock(t) ==
    /\ Running
    /\ th[t].pc = "ex_rlock"
    /\ RLock(th[t].o.mutex)
    /\ Move(t, [th[t] EXCEPT !.pc = "ex_read"], {})
    /\ UNCHANGED <<store, maps, fatal, ncalls, scope>>

\* if _, exists := m.innerMap[k]; exists { return true }; return false
ExistsRead(t) ==
    /\ Running
    /\ th[t].pc = "ex_read"
    /\ \E o \in ReadOutcomes(th[t].o.innerMap) :
         /\ fatal' = (o = "fatal")
         /\ Move(t, [th[t] EXCEPT !.pc = "ex_runlock",
                       !.got = MapAccess(store[th[t].o.innerMap], th[t].k)[2]], {})
    /\ UNCHANGED <<store, mutex, maps, ncalls, scope>>

\* defer m.mutex.RUnlock()
ExistsRUnlock(t) ==
    /\ Running
    /\ th[t].pc = "ex_runlock"
    /\ RUnlock(th[t].o.mutex)
    /\ IF th[t].op = "Diff"
       THEN Move(t, [th[t] EXCEPT !.pc = "diff_body"], {})
       ELSE Move(t, [th[t] EXCEPT !.pc = "ret", !.ret = th[t].got], {})
    /\ UNCHANGED <<store, maps, fatal, ncalls, scope>>

\* ------------------------------------------------------------------- Len
CallLen(t) ==
    /\ CanCall(t)
    /\ \E i \in DOMAIN maps :
         Start(t, [Idle EXCEPT !.pc = "len_read", !.op = "Len", !.m = maps[i]])

\* return len(m.innerMap): no lock is taken
LenRead(t) ==
    /\ Running
    /\ th[t].pc = "len_read"
    /\ Move(t, [th[t] EXCEPT !.pc = "ret",
                  !.ret = MapLen(store[th[t].m.innerMap])], {})
    /\ UNCHANGED <<store, mutex, maps, fatal, ncalls, scope>>

\* ---------------------------------------------------------------- return
\* the caller takes the result; the thread is free for the next call
Return(t) ==
    /\ Running
    /\ th[t].pc = "ret"
    /\ Move(t, Idle, {})
    /\ UNCHANGED <<store, mutex, maps, fatal, ncalls, scope>>

\* ------------------------------------------------------------- From / M
\* From(m) and M(m): return newMap(m)
From(locks, s) == newMap(locks, s)

\* return m.innerMap
Map(w) == store[w.innerMap]

\* ------------------------------------------------- the callbacks of a call
\* filter func(K, V) bool, filter func(K) bool, filter func(V) bool and
\* mapper func(V) V are the caller's; the model draws them from thresholds
\* and multipliers, as the tests do
FilterFn(f, k, v) == k >= f[1] /\ v >= f[2]
FilterKeysFn(f, k) == k >= f[1]
FilterValuesFn(f, v) == v >= f[2]
Mapper(f, v) == v * f[1]
Multipliers == {2, 3}

\* ------------------------------------------------------------ range loops
\* the entries of native map s that the running range loop has not produced
Unseen(t, s) == (DOMAIN store[s]) \ th[t].seen

\* mutant of ReturnNewMap: the result is built in the receiver's native map
ReturnNewMapInPlace(t, content) ==
    /\ store' = [store EXCEPT ![th[t].m.innerMap] = content]
    /\ mutex' = Append(mutex, NewRWMutex)
    /\ LET w == newMap(mutex, th[t].m.innerMap) IN
         /\ maps' = Append(maps, w)
         /\ Move(t, [th[t] EXCEPT !.pc = "ret", !.ret = w], {})

\* return newMap(content): content becomes a new native map on the heap
ReturnNewMap(t, content) ==
    /\ store' = Append(store, content)
    /\ mutex' = Append(mutex, NewRWMutex)
    /\ LET w == newMap(mutex, Len(store) + 1) IN
         /\ maps' = Append(maps, w)
         /\ Move(t, [th[t] EXCEPT !.pc = "ret", !.ret = w], {})

\* ----------------------------------------------------------------- Filter
\* mutant of CallFilter: Filter takes the receiver's lock as a reader
CallFilterRLocked(t) ==
    /\ CanDerive(t)
    /\ \E i \in DOMAIN maps, kmin \in scope.kmins, vmin \in scope.vmins :
         /\ RLock(maps[i].mutex)
         /\ th' = [th EXCEPT ![t] =
                     [Idle EXCEPT !.pc = "filter_range", !.op = "Filter",
                                  !.m = maps[i], !.f = <<kmin, vmin>>,
                                  !.pre = Snapshot(store)]]
    /\ ncalls' = ncalls + 1
    /\ UNCHANGED <<store, maps, fatal, scope>>

CallFilter(t) ==
    /\ CanDerive(t)
    /\ \E i \in DOMAIN maps, kmin \in scope.kmins, vmin \in scope.vmins :
         Start(t, [Idle EXCEPT !.pc = "filter_range", !.op = "Filter",
                               !.m = maps[i], !.f = <<kmin, vmin>>])

\* for k, v := range m.innerMap { if filter(k, v) { newmap[k] = v } }
FilterRange(t) ==
    /\ Running
    /\ th[t].pc = "filter_range"
    /\ LET s == th[t].m.innerMap IN
       \E o \in ReadOutcomes(s) :
         /\ fatal' = (o = "fatal")
         /\ \/ /\ \E k \in Unseen(t, s) :
                    Move(t, [th[t] EXCEPT
                               !.seen = @ \cup {k},
                               !.newmap = IF FilterFn(th[t].f, k, store[s][k])
                                          THEN MapAssign(@, k, store[s][k])
                                          ELSE @], {})
               /\ UNCHANGED <<store, mutex, maps>>
            \/ /\ Unseen(t, s) = {}
               /\ ReturnNewMap(t, th[t].newmap)
    /\ UNCHANGED <<ncalls, scope>>

\* ----------------------------------------------------------- FilterValues
CallFilterValues(t) ==
    /\ CanDerive(t)
    /\ \E i \in DOMAIN maps, vmin \in scope.vmins :
         Start(t, [Idle EXCEPT !.pc = "filterv_range", !.op = "FilterValues",
                               !.m = maps[i], !.f = <<0, vmin>>])

\* for k, v := range m.innerMap { if filter(v) { newmap[k] = v } }
FilterValuesRange(t) ==
    /\ Running
    /\ th[t].pc = "filterv_range"
    /\ LET s == th[t].m.innerMap IN
       \E o \in ReadOutcomes(s) :
         /\ fatal' = (o = "fatal")
         /\ \/ /\ \E k \in Unseen(t, s) :
                    Move(t, [th[t] EXCEPT
                               !.seen = @ \cup {k},
                               !.newmap = IF FilterValuesFn(th[t].f, store[s][k])
                                          THEN MapAssign(@, k, store[s][k])
                                          ELSE @], {})
               /\ UNCHANGED <<store, mutex, maps>>
            \/ /\ Unseen(t, s) = {}
               /\ ReturnNewMap(t, th[t].newmap)
    /\ UNCHANGED <<ncalls, scope>>

\* ------------------------------------------------------------- FilterKeys
CallFilterKeys(t) ==
    /\ CanDerive(t)
    /\ \E i \in DOMAIN maps, kmin \in scope.kmins :
         Start(t, [Idle EXCEPT !.pc = "filterk_range", !.op = "FilterKeys",
                               !.m = maps[i], !.f = <<kmin, 0>>])

\* for k, v := range m.innerMap { if filter(k) { newmap[k] = v } }
FilterKeysRange(t) ==
    /\ Running
    /\ th[t].pc = "filterk_range"
    /\ LET s == th[t].m.innerMap IN
       \E o \in ReadOutcomes(s) :
         /\ fatal' = (o = "fatal")
         /\ \/ /\ \E k \in Unseen(t, s) :
                    Move(t, [th[t] EXCEPT
                               !.seen = @ \cup {k},
                               !.newmap = IF FilterKeysFn(th[t].f, k)
                                          THEN MapAssign(@, k, store[s][k])
                                          ELSE @], {})
               /\ UNCHANGED <<store, mutex, maps>>
            \/ /\ Unseen(t, s) = {}
               /\ ReturnNewMap(t, th[t].newmap)
    /\ UNCHANGED <<ncalls, scope>>

\* ------------------------------------------------------------------- Each
CallEach(t) ==
    /\ CanDerive(t)
    /\ \E i \in DOMAIN maps, c \in scope.muls :
         Start(t, [Idle EXCEPT !.pc = "each_range", !.op = "Each",
                               !.m = maps[i], !.f = <<c, 0>>])

\* for k, v := range m.innerMap { newmap[k] = mapper(v) }
EachRange(t) ==
    /\ Running
    /\ th[t].pc = "each_range"
    /\ LET s == th[t].m.innerMap IN
       \E o \in ReadOutcomes(s) :
         /\ fatal' = (o = "fatal")
         /\ \/ /\ \E k \in Unseen(t, s) :
                    Move(t, [th[t] EXCEPT
                               !.seen = @ \cup {k},
                               !.newmap = MapAssign(@, k, Mapper(th[t].f, store[s][k]))],
                         {})
               /\ UNCHANGED <<store, mutex, maps>>
            \/ /\ Unseen(t, s) = {}
               /\ ReturnNewMap(t, th[t].newmap)
    /\ UNCHANGED <<ncalls, scope>>

\* ------------------------------------------------------------------ Chunk
\* mutant of ChunkFull: a chunk is closed when it has more than size entries
ChunkFullStrict(chunk, size) == MapLen(chunk) > size

\* mutant of ChunkFull: size 0 means no limit
ChunkFullUnlimited(chunk, size) == size > 0 /\ MapLen(chunk) >= size

\* if uint(len(chunk)) >= size
ChunkFull(chunk, size) == MapLen(chunk) >= size

CallChunk(t) ==
    /\ CanDerive(t)
    /\ \E i \in DOMAIN maps, size \in scope.sizes :
         Start(t, [Idle EXCEPT !.pc = "chunk_range", !.op = "Chunk",
                               !.m = maps[i], !.size = size])

\* for k, v := range m.innerMap {
\*     chunk[k] = v
\*     if uint(len(chunk)) >= size { maps = append(maps, newMap(chunk)); chunk = make(...) }
\* }
\* if len(chunk) > 0 { maps = append(maps, newMap(chunk)) }
\* return maps
ChunkRange(t) ==
    /\ Running
    /\ th[t].pc = "chunk_range"
    /\ LET s == th[t].m.innerMap IN
       \E o \in ReadOutcomes(s) :
         /\ fatal' = (o = "fatal")
         /\ \/ \E k \in Unseen(t, s) :
                 LET chunk == MapAssign(th[t].newmap, k, store[s][k]) IN
                   IF ChunkFull(chunk, th[t].size)
                   THEN /\ store' = Append(store, chunk)
                        /\ mutex' = Append(mutex, NewRWMutex)
                        /\ Move(t, [th[t] EXCEPT
                                      !.seen = @ \cup {k},
                                      !.out = Append(@, newMap(mutex, Len(store) + 1)),
                                      !.newmap = EmptyMap], {})
                        /\ UNCHANGED maps
                   ELSE /\ Move(t, [th[t] EXCEPT !.seen = @ \cup {k},
                                                 !.newmap = chunk], {})
                        /\ UNCHANGED <<store, mutex, maps>>
            \/ /\ Unseen(t, s) = {}
               /\ IF MapLen(th[t].newmap) > 0
                  THEN /\ store' = Append(store, th[t].newmap)
                       /\ mutex' = Append(mutex, NewRWMutex)
                       /\ LET out == Append(th[t].out, newMap(mutex, Len(store) + 1)) IN
                            /\ maps' = maps \o out
                            /\ Move(t, [th[t] EXCEPT !.pc = "ret", !.out = out,
                                                     !.ret = out], {})
                  ELSE /\ maps' = maps \o th[t].out
                       /\ Move(t, [th[t] EXCEPT !.pc = "ret", !.ret = th[t].out], {})
                       /\ UNCHANGED <<store, mutex>>
    /\ UNCHANGED <<ncalls, scope>>

\* ------------------------------------------------------------------- Diff
CallDiff(t) ==
    /\ CanDerive(t)
    /\ \E i \in DOMAIN maps, j \in DOMAIN maps :
         Start(t, [Idle EXCEPT !.pc = "diff_range", !.op = "Diff",
                               !.m = maps[i], !.others = <<maps[j]>>])

\* for k, v := range m.innerMap { if !other.Exists(k) ...: the next entry is
\* read from the receiver without its lock, then other.Exists(k) is called
DiffRange(t) ==
    /\ Running
    /\ th[t].pc = "diff_range"
    /\ LET s == th[t].m.innerMap IN
       \E o \in ReadOutcomes(s) :
         /\ fatal' = (o = "fatal")
         /\ \/ /\ \E k \in Unseen(t, s) :
                    Move(t, [th[t] EXCEPT !.pc = "ex_rlock",
                                          !.seen = @ \cup {k},
                                          !.k = k, !.v = store[s][k],
                                          !.o = th[t].others[1]], {})
               /\ UNCHANGED <<store, mutex, maps>>
            \/ /\ Unseen(t, s) = {}
               /\ ReturnNewMap(t, th[t].newmap)
    /\ UNCHANGED <<ncalls, scope>>

\* mutant of DiffBody: the test of other.Exists(k) is inverted
DiffBodyInverted(t) ==
    /\ Running
    /\ th[t].pc = "diff_body"
    /\ Move(t, [th[t] EXCEPT !.pc = "diff_range",
                  !.newmap = IF th[t].got THEN MapAssign(@, th[t].k, th[t].v) ELSE @],
            {})
    /\ UNCHANGED <<store, mutex, maps, fatal, ncalls, scope>>

\* ... { differ[k] = v } }
DiffBody(t) ==
    /\ Running
    /\ th[t].pc = "diff_body"
    /\ Move(t, [th[t] EXCEPT !.pc = "diff_range",
                  !.newmap = IF ~th[t].got THEN MapAssign(@, th[t].k, th[t].v) ELSE @],
            {})
    /\ UNCHANGED <<store, mutex, maps, fatal, ncalls, scope>>

\* ------------------------------------------------------------------- Join
\* the argument lists of a variadic call: up to max elements of S
ArgLists(max, S) == UNION {[1..n -> S] : n \in 0..max}

\* mutant of CallJoin: the receiver is folded first, not last
CallJoinReceiverFirst(t) ==
    /\ CanDerive(t)
    /\ \E i \in DOMAIN maps, js \in ArgLists(scope.maxArgs, DOMAIN maps) :
         Start(t, [Idle EXCEPT !.pc = "join_range", !.op = "Join",
                     !.m = maps[i], !.i = 1,
                     !.others = <<maps[i]>> \o [n \in DOMAIN js |-> maps[js[n]]]])

\* m.Join(others...): others = append(others, m)
CallJoin(t) ==
    /\ CanDerive(t)
    /\ \E i \in DOMAIN maps, js \in ArgLists(scope.maxArgs, DOMAIN maps) :
         Start(t, [Idle EXCEPT !.pc = "join_range", !.op = "Join",
                     !.m = maps[i], !.i = 1,
                     !.others = Append([n \in DOMAIN js |-> maps[js[n]]], maps[i])])

\* Join(others...): return M(map[K]V{}).Join(others...)
CallJoinFn(t) ==
    /\ CanDerive(t)
    /\ \E js \in ArgLists(scope.maxArgs, DOMAIN maps) :
         LET m == newMap(mutex, Len(store) + 1) IN
           th' = [th EXCEPT ![t] =
                    [Idle EXCEPT !.pc = "join_range", !.op = "JoinFn",
                       !.m = m, !.i = 1, !.pre = Snapshot(Append(store, EmptyMap)),
                       !.others = Append([n \in DOMAIN js |-> maps[js[n]]], m)]]
    /\ store' = Append(store, EmptyMap)
    /\ mutex' = Append(mutex, NewRWMutex)
    /\ ncalls' = ncalls + 1
    /\ UNCHANGED <<maps, fatal, scope>>

\* for _, other := range others { for k, v := range other.innerMap { joined[k] = v } }
JoinRange(t) ==
    /\ Running
    /\ th[t].pc = "join_range"
    /\ LET s == th[t].others[th[t].i].innerMap IN
       \E o \in ReadOutcomes(s) :
         /\ fatal' = (o = "fatal")
         /\ \/ /\ \E k \in Unseen(t, s) :
                    Move(t, [th[t] EXCEPT
                               !.seen = @ \cup {k},
                               !.newmap = MapAssign(@, k, store[s][k])], {})
               /\ UNCHANGED <<store, mutex, maps>>
            \/ /\ Unseen(t, s) = {}
               /\ th[t].i < Len(th[t].others)
               /\ Move(t, [th[t] EXCEPT !.i = @ + 1, !.seen = {}], {})
               /\ UNCHANGED <<store, mutex, maps>>
            \/ /\ Unseen(t, s) = {}
               /\ th[t].i = Len(th[t].others)
               /\ ReturnNewMap(t, th[t].newmap)
    /\ UNCHANGED <<ncalls, scope>>

\* ------------------------------------------------------------------- Only
CallOnly(t) ==
    /\ CanDerive(t)
    /\ \E i \in DOMAIN maps, keys \in ArgLists(scope.maxArgs, scope.keys) :
         Start(t, [Idle EXCEPT !.pc = "only_loop", !.op = "Only",
                               !.m = maps[i], !.keys = keys, !.i = 1])

\* for _, key := range keys { if v, exists := m.Get(key) ... }; return newMap(newmap)
OnlyLoop(t) ==
    /\ Running
    /\ th[t].pc = "only_loop"
    /\ IF th[t].i <= Len(th[t].keys)
       THEN /\ Move(t, [th[t] EXCEPT !.pc = "get_rlock", !.k = th[t].keys[th[t].i]], {})
            /\ UNCHANGED <<store, mutex, maps>>
       ELSE ReturnNewMap(t, th[t].newmap)
    /\ UNCHANGED <<fatal, ncalls, scope>>

\* ... ; exists { newmap[key] = v }
OnlyGot(t) ==
    /\ Running
    /\ th[t].pc = "only_got"
    /\ Move(t, [th[t] EXCEPT !.pc = "only_loop", !.i = @ + 1,
                  !.newmap = IF th[t].got[2]
                             THEN MapAssign(@, th[t].k, th[t].got[1]) ELSE @], {})
    /\ UNCHANGED <<store, mutex, maps, fatal, ncalls, scope>>

\* ------------------------------------------------------------ the methods
PointStep(t) ==
    \/ AddLock(t) \/ AddWrite(t) \/ AddCommit(t) \/ AddUnlock(t)
    \/ DeleteLock(t) \/ DeleteRead(t) \/ DeleteWrite(t) \/ DeleteCommit(t)
    \/ DeleteUnlock(t)
    \/ GetRLock(t) \/ GetRead(t) \/ GetRUnlock(t)
    \/ ExistsRLock(t) \/ ExistsRead(t) \/ ExistsRUnlock(t)
    \/ LenRead(t)
    \/ Return(t)

PointCall(t) ==
    \/ CallAdd(t) \/ CallDelete(t) \/ CallGet(t) \/ CallExists(t) \/ CallLen(t)

DerivedCall(t) ==
    \/ CallFilter(t) \/ CallFilterValues(t) \/ CallFilterKeys(t) \/ CallEach(t)
    \/ CallChunk(t) \/ CallDiff(t) \/ CallJoin(t) \/ CallJoinFn(t) \/ CallOnly(t)

DerivedStep(t) ==
    \/ FilterRange(t) \/ FilterValuesRange(t) \/ FilterKeysRange(t) \/ EachRange(t)
    \/ ChunkRange(t) \/ DiffRange(t) \/ DiffBody(t) \/ JoinRange(t)
    \/ OnlyLoop(t) \/ OnlyGot(t)

\* ------------------------------------------------------- the native maps
\* the initial native maps: a run of low keys (or some of its entries), a run
\* of high keys; the two hold different values at every key they share
PrefixMap(i) == [k \in 1..i |-> (k % MaxVal) + 1]
SuffixMap(j, max) == [k \in j..max |-> ((k + 1) % MaxVal) + 1]

\* ------------------------------------------------------------ point calls
\* One thread calls the point operations one after the other on
\* From(n) for a native map n.
InitPoint ==
    /\ scope = [keys |-> Keys, sizes |-> {}, maxArgs |-> 0,
                history |-> TRUE,
                kmins |-> {}, vmins |-> {}, muls |-> {},
                maxCalls |-> MaxPointCalls, maxDerived |-> 0]
    /\ store \in [1..1 -> NativeMaps(Keys)]
    /\ mutex = <<NewRWMutex>>
    /\ maps = <<From(<<>>, 1)>>
    /\ th = [t \in 1..1 |-> Idle]
    /\ fatal = FALSE
    /\ ncalls = 0

NextPoint == \E t \in {1} : PointCall(t) \/ PointStep(t)

SpecPoint == InitPoint /\ [][NextPoint]_vars

\* ---------------------------------------------------------- derived calls
\* One thread makes two calls on the Maps it holds, which are From(n1) and
\* From(n2) for two native maps and whatever its first call returned: the
\* first call is any derived operation, Add or Delete, the second is Add or
\* Delete.
InitSeq ==
    /\ scope = [keys |-> Keys, sizes |-> Sizes, maxArgs |-> MaxArgs,
                history |-> TRUE,
                kmins |-> Keys, vmins |-> Vals, muls |-> Multipliers,
                maxCalls |-> 2, maxDerived |-> 1]
    /\ \E d \in SUBSET Keys, j \in 1..(MaxKey + 1) :
         store = <<[k \in d |-> PrefixMap(MaxKey)[k]], SuffixMap(j, MaxKey)>>
    /\ mutex = <<NewRWMutex, NewRWMutex>>
    /\ maps = <<From(<<>>, 1), From(<<NewRWMutex>>, 2)>>
    /\ th = [t \in 1..1 |-> Idle]
    /\ fatal = FALSE
    /\ ncalls = 0

NextSeq ==
    \E t \in {1} :
        \/ DerivedCall(t) \/ DerivedStep(t)
        \/ CallAdd(t) \/ AddLock(t) \/ AddWrite(t) \/ AddCommit(t) \/ AddUnlock(t)
        \/ CallDelete(t) \/ DeleteLock(t) \/ DeleteRead(t) \/ DeleteWrite(t)
        \/ DeleteCommit(t) \/ DeleteUnlock(t)
        \/ GetRLock(t) \/ GetRead(t) \/ GetRUnlock(t)
        \/ ExistsRLock(t) \/ ExistsRead(t) \/ ExistsRUnlock(t)
        \/ Return(t)

SpecSeq == InitSeq /\ [][NextSeq]_vars

\* -------------------------------------------------------------- Chunk runs
\* One thread calls Chunk once and runs to completion.
NextChunk == \E t \in {1} : CallChunk(t) \/ ChunkRange(t) \/ Return(t)

SpecChunk == InitSeq /\ [][NextChunk]_vars /\ WF_vars(NextChunk)

\* ---------------------------------------------------------- concurrent Add
\* Threads 1..NAdders have each called Add(k, v) on the same Map, with
\* pairwise distinct keys; thread 0 calls Len once they have all returned.
AddersReturned == \A t \in 1..NAdders : th[t].pc = "ret"

InitAdd ==
    /\ scope = [keys |-> Keys, sizes |-> {}, maxArgs |-> 0,
                history |-> TRUE,
                kmins |-> {}, vmins |-> {}, muls |-> {},
                maxCalls |-> 1, maxDerived |-> 0]
    /\ \E i \in 0..MaxKey : store = <<PrefixMap(i)>>
    /\ mutex = <<NewRWMutex>>
    /\ maps = <<From(<<>>, 1)>>
    /\ \E ks \in [1..NAdders -> Keys], vs \in [1..NAdders -> Vals] :
         /\ \A t, u \in 1..NAdders : t # u => ks[t] # ks[u]
         /\ th = [t \in 0..NAdders |->
                    IF t = 0 THEN Idle
                    ELSE [Idle EXCEPT !.pc = "add_lock", !.op = "Add",
                                      !.m = maps[1], !.k = ks[t], !.v = vs[t],
                                      !.pre = store]]
    /\ fatal = FALSE
    /\ ncalls = 0

NextAdd ==
    \/ \E t \in 1..NAdders : AddLock(t) \/ AddWrite(t) \/ AddCommit(t) \/ AddUnlock(t)
    \/ \E t \in {0} : (AddersReturned /\ CallLen(t)) \/ LenRead(t)

SpecAdd == InitAdd /\ [][NextAdd]_vars

\* ------------------------------------------------------- concurrent calls
\* Two Maps are made by two From calls on one native map.  A run makes two
\* calls, from any of NThreads threads, at the same time or one after the
\* other: the first to start is any operation, the other a point operation;
\* both are on any Map made so far.
Init ==
    /\ scope = [keys |-> 1..MaxConcKey, sizes |-> {1}, maxArgs |-> 1,
                history |-> FALSE,
                kmins |-> {MaxConcKey}, vmins |-> {MaxVal}, muls |-> {2},
                maxCalls |-> 2, maxDerived |-> 1]
    /\ \E i \in 0..MaxConcKey : store = <<PrefixMap(i)>>
    /\ mutex = <<NewRWMutex, NewRWMutex>>
    /\ maps = <<From(<<>>, 1), From(<<NewRWMutex>>, 1)>>
    /\ th = [t \in 1..NThreads |-> Idle]
    /\ fatal = FALSE
    /\ ncalls = 0

Next ==
    \E t \in 1..NThreads :
        PointCall(t) \/ PointStep(t) \/ DerivedCall(t) \/ DerivedStep(t)

Spec == Init /\ [][Next]_vars

\* ------------------------------------------------ a derived call and writes
\* Thread 1 calls one of the operations that read the receiver's native map
\* without its lock, on the one Map; thread 2 calls Add and Delete on that
\* Map, twice, while thread 1 runs.
InitRace ==
    /\ scope = [keys |-> 1..MaxConcKey, sizes |-> {1}, maxArgs |-> 1,
                history |-> FALSE,
                kmins |-> {1}, vmins |-> {1}, muls |-> {2},
                maxCalls |-> 3, maxDerived |-> 1]
    /\ \E i \in 0..MaxConcKey : store = <<PrefixMap(i)>>
    /\ mutex = <<NewRWMutex>>
    /\ maps = <<From(<<>>, 1)>>
    /\ th = [t \in 1..2 |-> Idle]
    /\ fatal = FALSE
    /\ ncalls = 0

NextRace ==
    \/ \E t \in {1} :
         \/ CallFilter(t) \/ FilterRange(t)
         \/ CallFilterValues(t) \/ FilterValuesRange(t)
         \/ CallFilterKeys(t) \/ FilterKeysRange(t)
         \/ CallEach(t) \/ EachRange(t)
         \/ CallChunk(t) \/ ChunkRange(t)
         \/ CallJoin(t) \/ JoinRange(t)
         \/ CallDiff(t) \/ DiffRange(t) \/ DiffBody(t)
         \/ ExistsRLock(t) \/ ExistsRead(t) \/ ExistsRUnlock(t)
         \/ CallLen(t) \/ LenRead(t)
    \/ \E t \in {2} :
         \/ CallAdd(t) \/ AddLock(t) \/ AddWrite(t) \/ AddCommit(t) \/ AddUnlock(t)
         \/ CallDelete(t) \/ DeleteLock(t) \/ DeleteRead(t) \/ DeleteWrite(t)
         \/ DeleteCommit(t) \/ DeleteUnlock(t)
         \/ Return(t)

SpecRace == InitRace /\ [][NextRace]_vars

\* ------------------------------------------------------------------ claims
\* the entries of a native map, as a set of key/value pairs
Entries(m) == {<<k, m[k]>> : k \in DOMAIN m}

Returned(t, ops) == th[t].pc = "ret" /\ th[t].op \in ops

\* the receiver's native map when the running call started, and now
Before(t) == th[t].pre[th[t].m.innerMap]
Now(t) == store[th[t].m.innerMap]

\* C3: run sequentially, the point operations are those of a reference
\* mapping (a set of key/value pairs with unique keys): Add(k, v) replaces
\* the pair of k by <<k, v>> and keeps every other pair; Delete(k) returns
\* whether k had a pair and removes exactly that pair; Get(k) returns
\* (v, true) for the pair <<k, v>> and (zero, false) when there is none;
\* Exists(k) is the boolean of Get(k); Get and Exists change nothing.
C3_PointOpsRefineMapping ==
    \A t \in DOMAIN th :
      LET r == th[t]
          others == {p \in Entries(Before(t)) : p[1] # r.k}
          has == \E p \in Entries(Before(t)) : p[1] = r.k
      IN
        /\ Returned(t, {"Add"}) =>
             /\ Entries(Now(t)) = others \cup {<<r.k, r.v>>}
             /\ r.ret = r.m
        /\ Returned(t, {"Delete"}) =>
             /\ Entries(Now(t)) = others
             /\ r.ret = has
        /\ Returned(t, {"Get"}) =>
             /\ Now(t) = Before(t)
             /\ r.ret[2] = has
             /\ IF has THEN <<r.k, r.ret[1]>> \in Entries(Before(t))
                       ELSE r.ret[1] = Zero
        /\ Returned(t, {"Exists"}) =>
             /\ Now(t) = Before(t)
             /\ r.ret = has

\* C3 witness: the second call of a run, a Delete, found its key and removed it
\* from a map that holds other keys
C3_Witness ==
    /\ ncalls = 2
    /\ Returned(1, {"Delete"})
    /\ th[1].ret = TRUE
    /\ th[1].k \notin DOMAIN store[1]
    /\ MapLen(store[1]) > 0

\* the join of a sequence of native maps: every key of any of them, with the
\* value of the last map of the sequence that has the key
JoinOf(ms) ==
    [k \in UNION {DOMAIN ms[n] : n \in DOMAIN ms} |->
       ms[CHOOSE n \in DOMAIN ms :
            /\ k \in DOMAIN ms[n]
            /\ \A n2 \in DOMAIN ms : k \in DOMAIN ms[n2] => n2 <= n][k]]

\* the native maps of the arguments of a Join call, as they were at the call
JoinArgs(t) ==
    [n \in 1..(Len(th[t].others) - 1) |-> th[t].pre[th[t].others[n].innerMap]]

\* the native maps of the Maps in a returned slice
Chunks(t) == [n \in DOMAIN th[t].ret |-> store[th[t].ret[n].innerMap]]

\* C4: m.Join(o_1, ..., o_n) has the union of all the key sets; a key of m has
\* m's value, any other key has the value of the last o_i that has it.  The
\* function Join(o_1, ..., o_n) is the same with an empty receiver.
C4_JoinPrecedence ==
    \A t \in DOMAIN th :
      Returned(t, {"Join", "JoinFn"}) =>
        /\ store[th[t].ret.innerMap] = JoinOf(Append(JoinArgs(t), Before(t)))
        /\ th[t].op = "JoinFn" => Before(t) = EmptyMap

\* C4 witness: Join(o_1, o_2) returned where o_1 and o_2 hold different values
\* at a key, and the result has the value of o_2
C4_Witness ==
    /\ Returned(1, {"JoinFn"})
    /\ Len(th[1].others) = 3
    /\ \E k \in Keys :
         /\ k \in DOMAIN JoinArgs(1)[1] \cap DOMAIN JoinArgs(1)[2]
         /\ JoinArgs(1)[1][k] # JoinArgs(1)[2][k]
         /\ store[th[1].ret.innerMap][k] = JoinArgs(1)[2][k]

\* C5: for size >= 1, Chunk(size) of a map of N entries returns ceil(N / size)
\* maps, all of size entries but the last, which has 1..size; their key sets
\* are pairwise disjoint and their join is the original map.
C5_ChunkPartition ==
    \A t \in DOMAIN th :
      (Returned(t, {"Chunk"}) /\ th[t].size >= 1) =>
        LET N == MapLen(Before(t))
            L == Len(th[t].ret)
            size == th[t].size
            cs == Chunks(t)
        IN
          /\ L * size >= N
          /\ (L - 1) * size < N
          /\ \A n \in 1..(L - 1) : MapLen(cs[n]) = size
          /\ L > 0 => MapLen(cs[L]) \in 1..size
          /\ \A a, b \in 1..L : a # b => DOMAIN cs[a] \cap DOMAIN cs[b] = {}
          /\ JoinOf(cs) = Before(t)

\* C5 witness: Chunk(2) of a map of three entries returned two maps
C5_Witness ==
    /\ Returned(1, {"Chunk"})
    /\ th[1].size = 2
    /\ MapLen(Before(1)) = 3
    /\ Len(th[1].ret) = 2

\* C6: A.Diff(B) is A restricted to the keys that B does not have, whatever
\* the values; A.Diff(A) is empty.
C6_DiffRestriction ==
    \A t \in DOMAIN th :
      Returned(t, {"Diff"}) =>
        LET B == th[t].pre[th[t].others[1].innerMap]
            res == store[th[t].ret.innerMap]
        IN
          /\ Entries(res) = {p \in Entries(Before(t)) : p[1] \notin DOMAIN B}
          /\ th[t].others[1] = th[t].m => res = EmptyMap

\* C6 witness: A.Diff(B) returned a non-empty map after dropping a key at which
\* A and B hold different values
C6_Witness ==
    /\ Returned(1, {"Diff"})
    /\ store[th[1].ret.innerMap] # EmptyMap
    /\ \E k \in DOMAIN Before(1) \cap DOMAIN th[1].pre[th[1].others[1].innerMap] :
         /\ Before(1)[k] # th[1].pre[th[1].others[1].innerMap][k]
         /\ k \notin DOMAIN store[th[1].ret.innerMap]

DerivedOps ==
    {"Filter", "FilterValues", "FilterKeys", "Each", "Chunk", "Diff", "Join",
     "JoinFn", "Only"}

\* the Maps a derived call returned
ReturnedMaps(t) ==
    IF th[t].op = "Chunk" THEN {th[t].ret[n] : n \in DOMAIN th[t].ret}
    ELSE {th[t].ret}

\* C7: a derived operation leaves every native map that existed at the call
\* as it was and returns Maps over native maps that did not exist then, one
\* per returned Map; an Add or Delete through one Map changes the contents
\* of no other Map.
C7_DerivedFrame ==
    \A t \in DOMAIN th :
      /\ Returned(t, DerivedOps) =>
           /\ \A s \in DOMAIN th[t].pre : store[s] = th[t].pre[s]
           /\ \A w \in ReturnedMaps(t) : w.innerMap \notin DOMAIN th[t].pre
           /\ \A w1, w2 \in ReturnedMaps(t) :
                w1 # w2 => w1.innerMap # w2.innerMap
           /\ th[t].op = "Chunk" => Cardinality(ReturnedMaps(t)) = Len(th[t].ret)
      /\ Returned(t, {"Add", "Delete"}) =>
           \A i \in DOMAIN maps :
             maps[i] # th[t].m => Map(maps[i]) = th[t].pre[maps[i].innerMap]

\* C7 witness: after a derived call, an Add through the returned Map changed it
C7_Witness ==
    /\ Returned(1, {"Add"})
    /\ Len(maps) > 2
    /\ th[1].m = maps[3]
    /\ Now(1) # Before(1)
    /\ Map(maps[1]) # EmptyMap

\* C10: Chunk(0) is Chunk(1): it returns one map of one entry per entry of
\* the receiver (more than size = 0 entries each), whose join is the
\* receiver; while it runs it has built no more maps than the receiver has
\* entries, and every run of it returns.
C10_ChunkZeroResult ==
    \A t \in DOMAIN th :
      /\ ~fatal
      /\ (th[t].op = "Chunk" /\ th[t].size \in {0, 1}) =>
           /\ Len(th[t].out) <= MapLen(Before(t))
           /\ Returned(t, {"Chunk"}) =>
                /\ Len(th[t].ret) = MapLen(Before(t))
                /\ \A n \in DOMAIN th[t].ret :
                     MapLen(Chunks(t)[n]) = 1 /\ MapLen(Chunks(t)[n]) >= th[t].size
                /\ JoinOf(Chunks(t)) = Before(t)

ChunkZeroRunning == \E t \in DOMAIN th : th[t].pc = "chunk_range" /\ th[t].size = 0
ChunkZeroReturned == \E t \in DOMAIN th : Returned(t, {"Chunk"}) /\ th[t].size = 0

C10_ChunkZero == []C10_ChunkZeroResult /\ (ChunkZeroRunning ~> ChunkZeroReturned)

\* C10 witness: Chunk(0) of a map of three entries returned three maps
C10_Witness ==
    /\ Returned(1, {"Chunk"})
    /\ th[1].size = 0
    /\ MapLen(Before(1)) = 3
    /\ Len(th[1].ret) = 3

\* ------------------------------------------------------ critical sections
\* thread t is between Lock and Unlock of Add or Delete
InWriteCS(t) ==
    th[t].pc \in {"add_write", "add_commit", "add_unlock",
                  "del_read", "del_write", "del_commit", "del_unlock"}

\* thread t is between RLock and RUnlock of Get or Exists
InReadCS(t) == th[t].pc \in {"get_read", "get_runlock", "ex_read", "ex_runlock"}

\* the lock of the critical section thread t is in
LockOf(t) ==
    IF th[t].pc \in {"ex_read", "ex_runlock"} THEN th[t].o.mutex ELSE th[t].m.mutex

\* C1: once the concurrent Adds of pairwise distinct keys have all returned,
\* the map holds every added pair and every earlier entry of another key,
\* and Len() is the earlier length plus the number of keys that were new;
\* the process has not died on the way.
C1_NoLostUpdates ==
    /\ ~fatal
    /\ AddersReturned =>
         LET init == th[1].pre[1]
             added == {th[t].k : t \in 1..NAdders}
             len == MapLen(init) + Cardinality(added \ DOMAIN init)
         IN
           /\ \A t \in 1..NAdders : <<th[t].k, th[t].v>> \in Entries(store[1])
           /\ \A p \in Entries(init) : p[1] \notin added => p \in Entries(store[1])
           /\ DOMAIN store[1] = DOMAIN init \cup added
           /\ Returned(0, {"Len"}) => th[0].ret = len

\* C1 witness: the Adds on an empty map have returned and Len() returned their number
C1_Witness ==
    /\ AddersReturned
    /\ th[1].pre[1] = EmptyMap
    /\ Returned(0, {"Len"})
    /\ th[0].ret = NAdders

\* C2: a thread inside the critical section of Add or Delete excludes every
\* other thread from the critical sections of Add, Delete, Get and Exists on
\* the same lock; only readers are inside together.
C2_MutualExclusion ==
    \A t, u \in DOMAIN th :
      (t # u /\ InWriteCS(t) /\ (InWriteCS(u) \/ InReadCS(u)))
        => LockOf(t) # LockOf(u)

\* C2 witness: two threads are inside read critical sections on one lock
C2_Witness ==
    \E t, u \in DOMAIN th :
      /\ t # u
      /\ InReadCS(t) /\ InReadCS(u)
      /\ LockOf(t) = LockOf(u)
      /\ mutex[LockOf(t)].readers = 2

C9_LockPerMap ==
    /\ \A i, j \in DOMAIN maps : i # j => maps[i].mutex # maps[j].mutex
    /\ maps[1].innerMap = maps[2].innerMap
    /\ Map(maps[1]) = Map(maps[2])

\* C9 witness: two threads are in the middle of a write to the one native
\* map, each inside the write critical section of its own Map
C9_Witness ==
    \E t, u \in DOMAIN th :
      /\ t # u
      /\ th[t].pc = "add_commit" /\ th[u].pc \in {"add_commit", "del_commit"}
      /\ th[t].m = maps[1] /\ th[u].m = maps[2]
      /\ mutex[maps[1].mutex].writer /\ mutex[maps[2].mutex].writer

====
